---------------------------- MODULE Spec2Model ----------------------------
(***************************************************************************)
(* Model of the RSVP reader core: the tokenizer of                         *)
(* rsvp/core/text_processor.py and the playback engine of                  *)
(* rsvp/core/rsvp_engine.py (RSVPState, RSVPEngine and its QTimer).        *)
(*                                                                         *)
(* Conventions                                                             *)
(*  - a text is a sequence of one-character strings;                       *)
(*  - indices are Python's (0-based): words[i] of the code is words[i+1];  *)
(*  - pause_after is kept in tenths (1.0 -> 10, 1.2 -> 12, 1.5 -> 15,      *)
(*    2.5 -> 25) so that the arithmetic stays in the integers;             *)
(*  - a progress percentage is the exact fraction <<num, den>>;            *)
(*  - Optional[Word] is a sequence of length at most one (<<>> is None);   *)
(*  - every handler is an operator from an engine record to an engine      *)
(*    record; the signals it emits are appended to the record's log, each  *)
(*    with the cursor and the playing flag an observer reads at that time. *)
(***************************************************************************)
EXTENDS Integers, Sequences, FiniteSets, TLC

(***************************************************************************)
(* Bounds of the model.                                                    *)
(***************************************************************************)
\* most words of the texts enumerated exhaustively
MaxWords == 2

(***************************************************************************)
(* Characters.                                                             *)
(***************************************************************************)
Whitespace == {" ", "\t", "\n"}
SentenceEnd == {".", "!", "?"}
ClauseSep == {",", ";", ":"}
Closing == {"\"", "'", ")"}

Min(a, b) == IF a < b THEN a ELSE b
Max(a, b) == IF a > b THEN a ELSE b

(***************************************************************************)
(* text_processor.py                                                       *)
(***************************************************************************)
\* calculate_orp as a third of the length
calculate_orp_third(word) == Len(word) \div 3

calculate_orp(word) ==
    LET length == Len(word)
    IN  IF length <= 1 THEN 0
        ELSE IF length <= 3 THEN 0
        ELSE IF length <= 5 THEN 1
        ELSE IF length <= 9 THEN 2
        ELSE IF length <= 13 THEN 3
        ELSE 4

\* calculate_pause_multiplier that looks at the last character only
calculate_pause_multiplier_last(word) ==
    IF word = <<>> THEN 10
    ELSE LET last_char == word[Len(word)]
         IN  IF last_char \in SentenceEnd THEN 25
             ELSE IF last_char \in ClauseSep THEN 15
             ELSE IF last_char \in Closing THEN 12
             ELSE 10

\* result in tenths
calculate_pause_multiplier(word) ==
    IF word = <<>> THEN 10
    ELSE LET last_char == word[Len(word)]
         IN  IF last_char \in SentenceEnd THEN 25
             ELSE IF last_char \in ClauseSep THEN 15
             ELSE IF last_char \in Closing
                  THEN IF Len(word) > 1 /\ word[Len(word) - 1] \in SentenceEnd
                       THEN 25
                       ELSE 12
             ELSE 10

Word(t, orp, pause) == [text |-> t, orp_index |-> orp, pause_after |-> pause]

\* str.strip(): drop leading and trailing whitespace
RECURSIVE LStrip(_)
LStrip(t) ==
    IF t # <<>> /\ Head(t) \in Whitespace THEN LStrip(Tail(t)) ELSE t

RECURSIVE RStrip(_)
RStrip(t) ==
    IF t # <<>> /\ t[Len(t)] \in Whitespace
    THEN RStrip(SubSeq(t, 1, Len(t) - 1))
    ELSE t

Strip(t) == RStrip(LStrip(t))

\* re.sub(r'\s+', ' ', t): every maximal run of whitespace becomes one space
RECURSIVE CollapseWs(_)
CollapseWs(t) ==
    IF t = <<>> THEN <<>>
    ELSE IF Head(t) \in Whitespace
         THEN <<" ">> \o CollapseWs(LStrip(t))
         ELSE <<Head(t)>> \o CollapseWs(Tail(t))

\* str.split(): the maximal runs of non-whitespace characters, in order
RECURSIVE SplitWs(_, _)
SplitWs(t, cur) ==
    IF t = <<>> THEN (IF cur = <<>> THEN <<>> ELSE <<cur>>)
    ELSE IF Head(t) \in Whitespace
         THEN (IF cur = <<>> THEN <<>> ELSE <<cur>>) \o SplitWs(Tail(t), <<>>)
         ELSE SplitWs(Tail(t), Append(cur, Head(t)))

RECURSIVE MakeWords(_)
MakeWords(raw) ==
    IF raw = <<>> THEN <<>>
    ELSE LET raw_word == Head(raw)
         IN  (IF raw_word # <<>>
              THEN <<Word(raw_word, calculate_orp(raw_word),
                          calculate_pause_multiplier(raw_word))>>
              ELSE <<>>) \o MakeWords(Tail(raw))

\* process_text without the split
process_text_unsplit(text) ==
    LET normalized == CollapseWs(Strip(text))
    IN  IF normalized = <<>> THEN <<>> ELSE MakeWords(<<normalized>>)

process_text(text) ==
    LET normalized == CollapseWs(Strip(text))
    IN  IF normalized = <<>> THEN <<>> ELSE MakeWords(SplitWs(normalized, <<>>))

(***************************************************************************)
(* State: RSVPState (words, current_index, wpm, is_playing), the engine's  *)
(* QTimer (timerActive, timerInterval), and the record of the last         *)
(* operation: its name and arguments, the state it started from, and the   *)
(* signals it emitted.  error records that a handler raised an exception   *)
(* (IndexError on a list index out of range, ZeroDivisionError); the flag  *)
(* is all that is kept of a raise: the rest of the handler is modelled as  *)
(* if it had run.  lastWordChanged and lastProgressChanged are the         *)
(* payloads of the most recent word_changed and progress_changed signals   *)
(* (<<>> before the first one), which is what an observer that only        *)
(* listens still holds.  controls_is_playing is the _is_playing flag of    *)
(* PlaybackControls, which MainWindow._on_state_changed sets to            *)
(* engine.is_playing at every state_changed.  call is one direct call of a function of the            *)
(* program (the tests call them so): its name, its argument (a text or an  *)
(* RSVPState) and its result (a list of Word or a number).  settings is    *)
(* the RSVPSettings of the SettingsManager (the fields the claims are      *)
(* about), settings_before its value before the last call of the manager,  *)
(* and config_file what save() last wrote (<<>> if nothing).               *)
(***************************************************************************)
VARIABLES words, current_index, wpm, is_playing,
          timerActive, timerInterval,
          emitted, lastOp, lastArg, lastText, prev,
          finishedSinceOp, wordAfterFinished, error,
          lastWordChanged, lastProgressChanged, controls_is_playing, call,
          settings, settings_before, config_file

vars == <<words, current_index, wpm, is_playing, timerActive, timerInterval,
          emitted, lastOp, lastArg, lastText, prev,
          finishedSinceOp, wordAfterFinished, error,
          lastWordChanged, lastProgressChanged, controls_is_playing, call,
          settings, settings_before, config_file>>

\* the engine as a record, with an empty signal log
Cur == [words |-> words, current_index |-> current_index, wpm |-> wpm,
        is_playing |-> is_playing, timerActive |-> timerActive,
        timerInterval |-> timerInterval, log |-> <<>>, error |-> error]

\* an exception raised inside a handler
Raise(s) == [s EXCEPT !.error = TRUE]

\* words[idx] of a Python list: valid for -len <= idx < len, counted from
\* the end when negative
ListIndexOk(s, idx) == 0 - Len(s.words) <= idx /\ idx < Len(s.words)
ListGet(s, idx) ==
    IF idx >= 0 THEN s.words[idx + 1] ELSE s.words[Len(s.words) + idx + 1]

(***************************************************************************)
(* RSVPState properties                                                    *)
(***************************************************************************)
current_word(s) ==
    IF 0 <= s.current_index /\ s.current_index < Len(s.words)
    THEN <<s.words[s.current_index + 1]>>
    ELSE <<>>

\* progress counted from the word after the cursor
progress_next(s) ==
    IF s.words = <<>> THEN <<0, 1>>
    ELSE <<(s.current_index + 1) * 100, Len(s.words)>>

progress(s) ==
    IF s.words = <<>> THEN <<0, 1>>
    ELSE <<s.current_index * 100, Len(s.words)>>

\* words_remaining without max(0, ...)
words_remaining_signed(s) == Len(s.words) - s.current_index

words_remaining(s) == Max(0, Len(s.words) - s.current_index)

(***************************************************************************)
(* Signals: an emission is delivered synchronously, so it records what an  *)
(* observer reads from the engine at that moment.                          *)
(***************************************************************************)
Emission(s, sig, w, p) ==
    [sig |-> sig, word |-> w, num |-> p[1], den |-> p[2],
     index |-> s.current_index, nwords |-> Len(s.words),
     playing |-> s.is_playing]

Emit(s, sig, w, p) == [s EXCEPT !.log = Append(@, Emission(s, sig, w, p))]

emit_word_changed(s, w) == Emit(s, "word_changed", w, <<0, 1>>)
emit_state_changed(s) == Emit(s, "state_changed", <<>>, <<0, 1>>)
emit_progress_changed(s, p) == Emit(s, "progress_changed", <<>>, p)
emit_finished(s) == Emit(s, "finished", <<>>, <<0, 1>>)

(***************************************************************************)
(* QTimer: stop() deactivates it, start() (re)activates it with the        *)
(* interval it holds, setInterval() replaces the interval and, if the      *)
(* timer is active, restarts it with the new one.  There is one timer, so  *)
(* at most one timeout is pending.                                         *)
(***************************************************************************)
timer_stop(s) == [s EXCEPT !.timerActive = FALSE]
timer_start(s) == [s EXCEPT !.timerActive = TRUE]
timer_setInterval(s, ms) == [s EXCEPT !.timerInterval = ms]

\* the wpm at which int((60000 / wpm) * 1.2) falls one short of the exact
\* quotient in double arithmetic (within 50..2000)
FloatShort == {90, 180, 360, 720, 1440}

\* int((60000 / rate) * pause_after), pause in tenths, rate # 0; int()
\* truncates toward zero
IntervalMs(rate, pause) ==
    LET mag == IF rate < 0 THEN 0 - rate ELSE rate
        q == (60000 * pause) \div (mag * 10)
        ms == IF pause = 12 /\ mag \in FloatShort THEN q - 1 ELSE q
    IN  IF rate < 0 THEN 0 - ms ELSE ms

\* 60000 / wpm raises ZeroDivisionError when wpm is 0
update_timer_interval(s) ==
    IF s.wpm = 0 THEN Raise(s)
    ELSE LET current == current_word(s)
             interval == IF current # <<>>
                         THEN IntervalMs(s.wpm, current[1].pause_after)
                         ELSE IntervalMs(s.wpm, 10)
         IN  timer_setInterval(s, interval)

(***************************************************************************)
(* RSVPEngine                                                              *)
(***************************************************************************)
\* wpm setter that forgets the upper clamp
wpm_setter_noupper(s, value) ==
    LET s1 == [s EXCEPT !.wpm = Max(50, value)]
    IN  IF s1.is_playing THEN update_timer_interval(s1) ELSE s1

\* wpm setter that leaves the running timer alone
wpm_setter_noupdate(s, value) ==
    [s EXCEPT !.wpm = Max(50, Min(2000, value))]

\* wpm setter that forgets the lower clamp
wpm_setter_nolower(s, value) ==
    LET s1 == [s EXCEPT !.wpm = Min(2000, value)]
    IN  IF s1.is_playing THEN update_timer_interval(s1) ELSE s1

wpm_setter(s, value) ==
    LET s1 == [s EXCEPT !.wpm = Max(50, Min(2000, value))]
    IN  IF s1.is_playing THEN update_timer_interval(s1) ELSE s1

\* pause that clears the flag but leaves the timer running
pause_nostop(s) ==
    emit_state_changed([s EXCEPT !.is_playing = FALSE])

\* pause that also rewinds, as stop does
pause_rewind(s) ==
    emit_state_changed(
        timer_stop([s EXCEPT !.is_playing = FALSE, !.current_index = 0]))

pause(s) ==
    emit_state_changed(timer_stop([s EXCEPT !.is_playing = FALSE]))

\* stop that does not rewind
stop_norewind(s) ==
    LET s1 == timer_stop([s EXCEPT !.is_playing = FALSE])
        s3 == emit_progress_changed(emit_state_changed(s1), <<0, 1>>)
    IN  IF s3.words # <<>> THEN emit_word_changed(s3, current_word(s3)) ELSE s3

\* stop that leaves is_playing and the timer alone
stop_running(s) ==
    LET s1 == [s EXCEPT !.current_index = 0]
        s2 == emit_progress_changed(emit_state_changed(s1), <<0, 1>>)
    IN  IF s2.words # <<>> THEN emit_word_changed(s2, current_word(s2)) ELSE s2

stop(s) ==
    LET s1 == timer_stop([s EXCEPT !.is_playing = FALSE])
        s2 == [s1 EXCEPT !.current_index = 0]
        s3 == emit_progress_changed(emit_state_changed(s2), <<0, 1>>)
    IN  IF s3.words # <<>> THEN emit_word_changed(s3, current_word(s3)) ELSE s3

\* load_text without the leading stop()
load_text_nostop(s, text) ==
    LET s2 == [s EXCEPT !.words = process_text(text), !.current_index = 0]
        s3 == emit_progress_changed(emit_state_changed(s2), <<0, 1>>)
    IN  IF s3.words # <<>> THEN emit_word_changed(s3, current_word(s3))
        ELSE emit_word_changed(s3, <<>>)

\* load_text that also resets the rate to its default
load_text_fresh(s, text) ==
    LET s1 == stop(s)
        s2 == [s1 EXCEPT !.words = process_text(text),
                         !.current_index = 0,
                         !.wpm = 300]
        s3 == emit_progress_changed(emit_state_changed(s2), <<0, 1>>)
    IN  emit_word_changed(s3, current_word(s2))

load_text(s, text) ==
    LET s1 == stop(s)
        s2 == [s1 EXCEPT !.words = process_text(text), !.current_index = 0]
        s3 == emit_progress_changed(emit_state_changed(s2), <<0, 1>>)
    IN  IF s3.words # <<>> THEN emit_word_changed(s3, current_word(s3))
        ELSE emit_word_changed(s3, <<>>)

\* play that never restarts from the beginning
play_noreset(s) ==
    IF s.words = <<>> THEN s
    ELSE emit_state_changed(
             timer_start(update_timer_interval([s EXCEPT !.is_playing = TRUE])))

\* play without the empty-words guard
play_noguard(s) ==
    LET s1 == IF s.current_index >= Len(s.words) - 1
              THEN [s EXCEPT !.current_index = 0]
              ELSE s
        s2 == [s1 EXCEPT !.is_playing = TRUE]
    IN  emit_state_changed(timer_start(update_timer_interval(s2)))

\* play that emits state_changed before it sets is_playing
play_emitfirst(s) ==
    IF s.words = <<>> THEN s
    ELSE LET s1 == IF s.current_index >= Len(s.words) - 1
                   THEN [s EXCEPT !.current_index = 0]
                   ELSE s
             s2 == emit_state_changed(s1)
             s3 == [s2 EXCEPT !.is_playing = TRUE]
         IN  timer_start(update_timer_interval(s3))

\* play that does not start the timer
play_nostart(s) ==
    IF s.words = <<>> THEN s
    ELSE LET s1 == IF s.current_index >= Len(s.words) - 1
                   THEN [s EXCEPT !.current_index = 0]
                   ELSE s
             s2 == [s1 EXCEPT !.is_playing = TRUE]
         IN  emit_state_changed(update_timer_interval(s2))

play(s) ==
    IF s.words = <<>> THEN s
    ELSE LET s1 == IF s.current_index >= Len(s.words) - 1
                   THEN [s EXCEPT !.current_index = 0]
                   ELSE s
             s2 == [s1 EXCEPT !.is_playing = TRUE]
         IN  emit_state_changed(timer_start(update_timer_interval(s2)))

\* toggle_play_pause that always plays
toggle_play_pause_play(s) == play(s)

toggle_play_pause(s) == IF s.is_playing THEN pause(s) ELSE play(s)

\* seek that does not clamp the index
seek_unclamped(s, index) ==
    IF s.words = <<>> THEN s
    ELSE LET s1 == [s EXCEPT !.current_index = index]
         IN  emit_progress_changed(emit_word_changed(s1, current_word(s1)),
                                   progress(s1))

\* seek that clamps at 0 only
seek_noupper(s, index) ==
    IF s.words = <<>> THEN s
    ELSE LET s1 == [s EXCEPT !.current_index = Max(0, index)]
         IN  emit_progress_changed(emit_word_changed(s1, current_word(s1)),
                                   progress(s1))

\* seek without the empty-words guard
seek_noguard(s, index) ==
    LET s1 == [s EXCEPT
                 !.current_index = Max(0, Min(index, Len(s.words) - 1))]
    IN  emit_progress_changed(emit_word_changed(s1, current_word(s1)),
                              progress(s1))

seek(s, index) ==
    IF s.words = <<>> THEN s
    ELSE LET s1 == [s EXCEPT
                      !.current_index = Max(0, Min(index, Len(s.words) - 1))]
         IN  emit_progress_changed(emit_word_changed(s1, current_word(s1)),
                                   progress(s1))

\* seek_percent that rounds to the nearest index
seek_percent_round(s, percent) ==
    IF s.words = <<>> THEN s
    ELSE seek(s, (percent * Len(s.words) + 50) \div 100)

\* int((percent / 100) * len(words)) truncates toward zero
seek_percent(s, percent) ==
    IF s.words = <<>> THEN s
    ELSE LET n == Len(s.words)
             index == IF percent >= 0 THEN (percent * n) \div 100
                      ELSE 0 - (((0 - percent) * n) \div 100)
         IN  seek(s, index)

skip_forward(s, n) == seek(s, s.current_index + n)

\* skip_backward that moves forward
skip_backward_plus(s, n) == seek(s, s.current_index + n)

skip_backward(s, n) == seek(s, s.current_index - n)

IsSentenceEnd(word) ==
    word.text # <<>> /\ word.text[Len(word.text)] \in SentenceEnd

RECURSIVE previous_scan(_, _)
previous_scan(s, idx) ==
    IF idx > 0
    THEN IF ~ListIndexOk(s, idx) THEN Raise(s)
         ELSE IF IsSentenceEnd(ListGet(s, idx)) THEN seek(s, idx + 1)
         ELSE previous_scan(s, idx - 1)
    ELSE seek(s, 0)

\* previous_sentence that starts its scan at the current word
previous_sentence_here(s) ==
    IF s.words = <<>> THEN s ELSE previous_scan(s, s.current_index)

\* previous_sentence that steps back one word
previous_sentence_word(s) ==
    IF s.words = <<>> THEN s ELSE seek(s, Max(0, s.current_index - 1))

\* previous_sentence that starts its scan two words before the current one
previous_sentence_back2(s) ==
    IF s.words = <<>> THEN s
    ELSE previous_scan(s, Max(0, s.current_index - 2))

previous_sentence(s) ==
    IF s.words = <<>> THEN s
    ELSE previous_scan(s, Max(0, s.current_index - 1))

RECURSIVE next_scan(_, _)
next_scan(s, idx) ==
    IF idx < Len(s.words) - 1
    THEN IF ~ListIndexOk(s, idx) THEN Raise(s)
         ELSE IF IsSentenceEnd(ListGet(s, idx)) THEN seek(s, idx + 1)
         ELSE next_scan(s, idx + 1)
    ELSE seek(s, Len(s.words) - 1)

\* next_sentence that starts its scan after the current word
next_sentence_after(s) ==
    IF s.words = <<>> THEN s ELSE next_scan(s, s.current_index + 1)

\* next_sentence that starts its scan at the first word
next_sentence_first(s) ==
    IF s.words = <<>> THEN s ELSE next_scan(s, 0)

next_sentence(s) ==
    IF s.words = <<>> THEN s ELSE next_scan(s, s.current_index)

\* advance that does not pause at the end of the text
advance_nopause(s) ==
    LET s1 == [s EXCEPT !.current_index = @ + 1]
    IN  IF s1.current_index >= Len(s1.words)
        THEN emit_finished([s1 EXCEPT !.current_index = Len(s1.words) - 1])
        ELSE update_timer_interval(
                 emit_progress_changed(
                     emit_word_changed(s1, current_word(s1)), progress(s1)))

\* advance whose end-of-text branch falls through instead of returning
advance_noreturn(s) ==
    LET s1 == [s EXCEPT !.current_index = @ + 1]
        s4 == IF s1.current_index >= Len(s1.words)
              THEN LET s2 == pause(s1)
                       s3 == [s2 EXCEPT !.current_index = Len(s2.words) - 1]
                   IN  emit_finished(s3)
              ELSE s1
    IN  update_timer_interval(
            emit_progress_changed(
                emit_word_changed(s4, current_word(s4)), progress(s4)))

\* advance that keeps the interval of the previous word
advance_noupdate(s) ==
    LET s1 == [s EXCEPT !.current_index = @ + 1]
    IN  IF s1.current_index >= Len(s1.words)
        THEN LET s2 == pause(s1)
                 s3 == [s2 EXCEPT !.current_index = Len(s2.words) - 1]
             IN  emit_finished(s3)
        ELSE emit_progress_changed(
                 emit_word_changed(s1, current_word(s1)), progress(s1))

advance(s) ==
    LET s1 == [s EXCEPT !.current_index = @ + 1]
    IN  IF s1.current_index >= Len(s1.words)
        THEN LET s2 == pause(s1)
                 s3 == [s2 EXCEPT !.current_index = Len(s2.words) - 1]
             IN  emit_finished(s3)
        ELSE update_timer_interval(
                 emit_progress_changed(
                     emit_word_changed(s1, current_word(s1)), progress(s1)))

(***************************************************************************)
(* Inputs of the operations.                                               *)
(***************************************************************************)
\* a plain word and a word that ends a sentence
Vocab == {<<"a">>, <<"b", ".">>}

RECURSIVE JoinWords(_)
JoinWords(ws) ==
    IF ws = <<>> THEN <<>>
    ELSE IF Len(ws) = 1 THEN ws[1]
    ELSE ws[1] \o <<" ">> \o JoinWords(Tail(ws))

\* the shapes of the texts of the tests: "one two three", "one two three
\* four", "Only one sentence.", "First sentence. Second sentence." and
\* "First sentence. Second sentence. Third."
TestTexts ==
    { JoinWords(<< <<"a">>, <<"a">>, <<"a">> >>),
      JoinWords(<< <<"a">>, <<"a">>, <<"a">>, <<"a">> >>),
      JoinWords(<< <<"a">>, <<"a">>, <<"b", ".">> >>),
      JoinWords(<< <<"a">>, <<"b", ".">>, <<"a">>, <<"b", ".">> >>),
      JoinWords(<< <<"a">>, <<"b", ".">>, <<"a">>, <<"b", ".">>,
                   <<"b", ".">> >>) }

\* every text of at most MaxWords words, some with irregular whitespace,
\* and the texts of the tests
LoadTexts ==
    { JoinWords(ws) : ws \in UNION { [1..n -> Vocab] : n \in 0..MaxWords } }
    \cup { <<" ", "\t">>, <<"\t", "a", " ", "\t", "b", ".", " ">> }
    \cup TestTexts

\* every index of the texts, and the out-of-range targets of the tests
SeekArgs == {0 - 5, 0, 1, 2, 3, 4, 100}
Percents == {0 - 50, 0, 50, 99, 100}
SkipArgs == {1, 10}
RateArgs == {0 - 100, 0, 300, 2001}

(***************************************************************************)
(* Init: RSVPState() and a fresh, inactive QTimer (interval 0).            *)
(***************************************************************************)
Snapshot == [current_index |-> current_index, is_playing |-> is_playing,
             wpm |-> wpm, nwords |-> Len(words)]

\* no direct call
NoCall ==
    [fn |-> "none", text |-> <<>>,
     state |-> [words |-> <<>>, current_index |-> 0, wpm |-> 300,
                is_playing |-> FALSE],
     words |-> <<>>, value |-> 0]

EngineInit ==
    /\ words = <<>>
    /\ current_index = 0
    /\ wpm = 300
    /\ is_playing = FALSE
    /\ timerActive = FALSE
    /\ timerInterval = 0
    /\ emitted = <<>>
    /\ lastOp = "init"
    /\ lastArg = 0
    /\ lastText = <<>>
    /\ prev = [current_index |-> 0, is_playing |-> FALSE, wpm |-> 300,
               nwords |-> 0]
    /\ finishedSinceOp = 0
    /\ wordAfterFinished = FALSE
    /\ error = FALSE
    /\ lastWordChanged = <<>>
    /\ lastProgressChanged = <<>>
    /\ controls_is_playing = FALSE

\* RSVPSettings(): no recent files, at most 10 of them, no bookmarks (a dict
\* is a function from its keys)
DefaultSettings ==
    [recent_files |-> <<>>, max_recent_files |-> 10,
     bookmarks |-> [p \in {} |-> <<>>]]

SettingsInit ==
    /\ settings = DefaultSettings
    /\ settings_before = DefaultSettings
    /\ config_file = <<>>

Init ==
    /\ EngineInit
    /\ call = NoCall
    /\ SettingsInit

\* the last emission of a signal in a log, as a sequence of length <= 1
LastOf(log, sig) ==
    LET idxs == {i \in 1..Len(log) : log[i].sig = sig}
    IN  IF idxs = {} THEN <<>>
        ELSE <<log[CHOOSE i \in idxs : \A j \in idxs : j <= i]>>

\* the engine after a handler returned
Engine(s) ==
    /\ words' = s.words
    /\ current_index' = s.current_index
    /\ wpm' = s.wpm
    /\ is_playing' = s.is_playing
    /\ timerActive' = s.timerActive
    /\ timerInterval' = s.timerInterval
    /\ emitted' = s.log
    /\ error' = s.error
    /\ lastWordChanged' =
           LET e == LastOf(s.log, "word_changed")
           IN  IF e = <<>> THEN lastWordChanged ELSE <<e[1].word>>
    /\ lastProgressChanged' =
           LET e == LastOf(s.log, "progress_changed")
           IN  IF e = <<>> THEN lastProgressChanged ELSE <<e[1].num, e[1].den>>
    /\ controls_is_playing' =
           LET e == LastOf(s.log, "state_changed")
           IN  IF e = <<>> THEN controls_is_playing ELSE e[1].playing

Count(log, sig) == Cardinality({i \in 1..Len(log) : log[i].sig = sig})

\* an operation invoked by the user
UserOp(op, arg, text, s) ==
    /\ Engine(s)
    /\ lastOp' = op
    /\ lastArg' = arg
    /\ lastText' = text
    /\ prev' = Snapshot
    /\ finishedSinceOp' = 0
    /\ wordAfterFinished' = FALSE
    /\ UNCHANGED <<call, settings, settings_before, config_file>>

Load == \E text \in LoadTexts : UserOp("Load", 0, text, load_text(Cur, text))
Play == UserOp("Play", 0, <<>>, play(Cur))
Pause == UserOp("Pause", 0, <<>>, pause(Cur))
TogglePlayPause == UserOp("TogglePlayPause", 0, <<>>, toggle_play_pause(Cur))
Stop == UserOp("Stop", 0, <<>>, stop(Cur))

\* a click on the play/pause button: PlaybackControls._on_play_pause emits
\* pause_clicked or play_clicked, connected to engine.pause and engine.play
ClickPlayPause ==
    UserOp("ClickPlayPause", 0, <<>>,
           IF controls_is_playing THEN pause(Cur) ELSE play(Cur))

Seek == \E index \in SeekArgs : UserOp("Seek", index, <<>>, seek(Cur, index))
SeekPercent ==
    \E percent \in Percents :
        UserOp("SeekPercent", percent, <<>>, seek_percent(Cur, percent))
SkipForward ==
    \E n \in SkipArgs : UserOp("SkipForward", n, <<>>, skip_forward(Cur, n))
SkipBackward ==
    \E n \in SkipArgs : UserOp("SkipBackward", n, <<>>, skip_backward(Cur, n))
PreviousSentence == UserOp("PreviousSentence", 0, <<>>, previous_sentence(Cur))
NextSentence == UserOp("NextSentence", 0, <<>>, next_sentence(Cur))
SetRate ==
    \E value \in RateArgs : UserOp("SetRate", value, <<>>, wpm_setter(Cur, value))

\* the timer's timeout, connected to advance; it fires only while the timer
\* is active
Tick ==
    /\ timerActive
    /\ LET s == advance(Cur)
       IN  /\ Engine(s)
           /\ finishedSinceOp' =
                  Min(2, finishedSinceOp + Count(s.log, "finished"))
           /\ wordAfterFinished' =
                  (wordAfterFinished
                     \/ (finishedSinceOp > 0 /\ Count(s.log, "word_changed") > 0))
    /\ lastOp' = "Tick"
    /\ lastArg' = 0
    /\ lastText' = <<>>
    /\ prev' = Snapshot
    /\ UNCHANGED <<call, settings, settings_before, config_file>>

Next ==
    \/ Load
    \/ Play
    \/ Pause
    \/ TogglePlayPause
    \/ Stop
    \/ ClickPlayPause
    \/ Seek
    \/ SeekPercent
    \/ SkipForward
    \/ SkipBackward
    \/ PreviousSentence
    \/ NextSentence
    \/ SetRate
    \/ Tick

Spec == Init /\ [][Next]_vars

(***************************************************************************)
(* Uninterrupted playback: the user acts only while the engine is paused;  *)
(* once it plays, only the timer acts until the engine stops playing.  The *)
(* QTimer is repeating: while it is active the event loop delivers its     *)
(* timeout, hence weak fairness of Tick.                                   *)
(***************************************************************************)
UserOps ==
    \/ Load
    \/ Play
    \/ Pause
    \/ TogglePlayPause
    \/ Stop
    \/ ClickPlayPause
    \/ Seek
    \/ SeekPercent
    \/ SkipForward
    \/ SkipBackward
    \/ PreviousSentence
    \/ NextSentence
    \/ SetRate

PlaybackNext ==
    \/ ~is_playing /\ UserOps
    \/ Tick

PlaybackSpec == Init /\ [][PlaybackNext]_vars /\ WF_vars(Tick)

(***************************************************************************)
(* Direct calls of the functions of text_processor.py and of the           *)
(* properties of RSVPState, as the tests make them: the argument is drawn  *)
(* at the start, one call is made, and its result is kept in call.         *)
(***************************************************************************)
\* longest text over TokenizerChars, longest run of letters, longest text
\* over PunctuationChars, most words of an RSVPState built directly
MaxTextLen == 4
MaxTokenLen == 14
MaxPunctLen == 3
MaxStateWords == 3

StringsUpTo(chars, n) == UNION {[1..k -> chars] : k \in 0..n}

TokenizerChars == {"a", "."} \cup Whitespace
PunctuationChars == {"a"} \cup SentenceEnd \cup ClauseSep \cup Closing

CallTexts ==
    StringsUpTo(TokenizerChars, MaxTextLen)
        \cup {[i \in 1..k |-> "a"] : k \in 1..MaxTokenLen}
        \cup StringsUpTo(PunctuationChars, MaxPunctLen)

\* RSVPState(words=..., current_index=...): the cursor is whatever the caller
\* passes, inside the words or not
CallStates ==
    {[words |-> [i \in 1..n |-> Word(<<"a">>, 0, 10)], current_index |-> c,
      wpm |-> 300, is_playing |-> FALSE] :
         n \in 0..MaxStateWords, c \in (0 - 1)..(MaxStateWords + 2)}

CallInit ==
    /\ EngineInit
    /\ SettingsInit
    /\ call \in {[NoCall EXCEPT !.text = t] : t \in CallTexts}
                    \cup {[NoCall EXCEPT !.state = st] : st \in CallStates}

\* a call leaves the engine alone
Called(c) ==
    /\ call.fn = "none"
    /\ call' = c
    /\ UNCHANGED <<words, current_index, wpm, is_playing, timerActive,
                   timerInterval, emitted, lastOp, lastArg, lastText, prev,
                   finishedSinceOp, wordAfterFinished, error,
                   lastWordChanged, lastProgressChanged,
                   controls_is_playing, settings, settings_before,
                   config_file>>

CallProcessText ==
    Called([call EXCEPT !.fn = "process_text",
                        !.words = process_text(call.text)])
CallCalculateOrp ==
    Called([call EXCEPT !.fn = "calculate_orp",
                        !.value = calculate_orp(call.text)])
CallCalculatePauseMultiplier ==
    Called([call EXCEPT !.fn = "calculate_pause_multiplier",
                        !.value = calculate_pause_multiplier(call.text)])
CallWordsRemaining ==
    Called([call EXCEPT !.fn = "words_remaining",
                        !.value = words_remaining(call.state)])

CallNext ==
    \/ CallProcessText
    \/ CallCalculateOrp
    \/ CallCalculatePauseMultiplier
    \/ CallWordsRemaining

CallSpec == CallInit /\ [][CallNext]_vars

(***************************************************************************)
(* settings.py: SettingsManager.  A path is a text; a Python list is a     *)
(* sequence and a dict a function from its keys.                           *)
(***************************************************************************)
\* number of file paths
NumPaths == 3

PathNames == <<"a", "b", "c", "d", "e", "f">>
Paths == {<<PathNames[i]>> : i \in 1..NumPaths}

\* x in l
InList(l, x) == \E i \in 1..Len(l) : l[i] = x

\* l.remove(x): drops the first occurrence of x, which is in l
ListRemove(l, x) ==
    LET i == CHOOSE k \in 1..Len(l) :
                 l[k] = x /\ \A j \in 1..(k - 1) : l[j] # x
    IN  SubSeq(l, 1, i - 1) \o SubSeq(l, i + 1, Len(l))

\* l[:n]
ListSlice(l, n) ==
    IF n >= 0 THEN SubSeq(l, 1, Min(n, Len(l)))
    ELSE SubSeq(l, 1, Max(0, Len(l) + n))

\* the manager as a record
Manager == [settings |-> settings, config_file |-> config_file]

\* save(): json.dump of the settings into the config file
save(m) == [m EXCEPT !.config_file = <<m.settings>>]

\* add_recent_file that does not remove the path first
add_recent_file_keep(m, filepath) ==
    LET inserted == <<filepath>> \o m.settings.recent_files
    IN  save([m EXCEPT !.settings.recent_files =
                           ListSlice(inserted, m.settings.max_recent_files)])

add_recent_file(m, filepath) ==
    LET removed == IF InList(m.settings.recent_files, filepath)
                   THEN ListRemove(m.settings.recent_files, filepath)
                   ELSE m.settings.recent_files
        inserted == <<filepath>> \o removed
    IN  save([m EXCEPT !.settings.recent_files =
                           ListSlice(inserted, m.settings.max_recent_files)])

engineVars ==
    <<words, current_index, wpm, is_playing, timerActive, timerInterval,
      emitted, lastOp, lastArg, lastText, prev, finishedSinceOp,
      wordAfterFinished, error, lastWordChanged, lastProgressChanged,
      controls_is_playing>>

\* a call of a method of the manager, which returned m
ManagerCall(fn, filepath, word_index, m) ==
    /\ settings' = m.settings
    /\ config_file' = m.config_file
    /\ settings_before' = settings
    /\ call' = [NoCall EXCEPT !.fn = fn, !.text = filepath,
                              !.value = word_index]
    /\ UNCHANGED engineVars

\* the lists without a repeated path
NoDuplicate(l) == \A i, j \in 1..Len(l) : i # j => l[i] # l[j]
RecentLists == {l \in StringsUpTo(Paths, NumPaths) : NoDuplicate(l)}

\* max_recent_files: the default, and limits below the number of paths
RecentLimits == (1..(NumPaths - 1)) \cup {DefaultSettings.max_recent_files}

\* the settings load() read from the config file: a list of recent files
\* without duplicates and a limit
RecentFilesInit ==
    /\ EngineInit
    /\ call = NoCall
    /\ settings \in {[DefaultSettings EXCEPT !.recent_files = l,
                                             !.max_recent_files = n] :
                        l \in RecentLists, n \in RecentLimits}
    /\ settings_before = settings
    /\ config_file = <<settings>>

AddRecentFile ==
    \E filepath \in Paths :
        ManagerCall("add_recent_file", filepath, 0,
                    add_recent_file(Manager, filepath))

RecentFilesNext == AddRecentFile

RecentFilesSpec == RecentFilesInit /\ [][RecentFilesNext]_vars

\* files that get bookmarks, largest bookmarked word index
NumBookmarkFiles == 2
MaxBookmark == 2

BookmarkFiles == {<<PathNames[i]>> : i \in 1..NumBookmarkFiles}

\* d[k] = v
DictSet(d, k, v) ==
    [p \in DOMAIN d \cup {k} |-> IF p = k THEN v ELSE d[p]]

\* l.sort() of a list of integers
ListSort(l) == SortSeq(l, LAMBDA x, y : x < y)

\* add_bookmark that appends without sorting
add_bookmark_nosort(m, filepath, word_index) ==
    LET b == IF filepath \notin DOMAIN m.settings.bookmarks
             THEN DictSet(m.settings.bookmarks, filepath, <<>>)
             ELSE m.settings.bookmarks
    IN  IF ~InList(b[filepath], word_index)
        THEN save([m EXCEPT !.settings.bookmarks =
                      DictSet(b, filepath, Append(b[filepath], word_index))])
        ELSE [m EXCEPT !.settings.bookmarks = b]

add_bookmark(m, filepath, word_index) ==
    LET b == IF filepath \notin DOMAIN m.settings.bookmarks
             THEN DictSet(m.settings.bookmarks, filepath, <<>>)
             ELSE m.settings.bookmarks
    IN  IF ~InList(b[filepath], word_index)
        THEN save([m EXCEPT !.settings.bookmarks =
                      DictSet(b, filepath,
                              ListSort(Append(b[filepath], word_index)))])
        ELSE [m EXCEPT !.settings.bookmarks = b]

remove_bookmark(m, filepath, word_index) ==
    LET b == m.settings.bookmarks
    IN  IF filepath \in DOMAIN b /\ InList(b[filepath], word_index)
        THEN save([m EXCEPT !.settings.bookmarks =
                      DictSet(b, filepath, ListRemove(b[filepath], word_index))])
        ELSE m

\* bookmarks.get(filepath, []) of a settings value
get_bookmarks(st, filepath) ==
    IF filepath \in DOMAIN st.bookmarks THEN st.bookmarks[filepath] ELSE <<>>

\* a manager constructed without a config file
BookmarksInit ==
    /\ EngineInit
    /\ call = NoCall
    /\ SettingsInit

AddBookmark ==
    \E filepath \in BookmarkFiles, word_index \in 0..MaxBookmark :
        ManagerCall("add_bookmark", filepath, word_index,
                    add_bookmark(Manager, filepath, word_index))

RemoveBookmark ==
    \E filepath \in BookmarkFiles, word_index \in 0..MaxBookmark :
        ManagerCall("remove_bookmark", filepath, word_index,
                    remove_bookmark(Manager, filepath, word_index))

BookmarksNext ==
    \/ AddBookmark
    \/ RemoveBookmark

BookmarksSpec == BookmarksInit /\ [][BookmarksNext]_vars

(***************************************************************************)
(* Properties.                                                             *)
(***************************************************************************)
\* the pause factor (tenths) of the word under the cursor
CurrentPause == words[current_index + 1].pause_after

\* C1: after any sequence of operations and ticks the cursor is a valid
\* index of words (0 <= cursor < len(words)) when words is non-empty, and
\* is 0 when words is empty.
C1_CursorInRange ==
    IF words = <<>> THEN current_index = 0
    ELSE 0 <= current_index /\ current_index < Len(words)

\* a tick at the last word has clamped the cursor back to the last index
C1_Witness ==
    /\ lastOp = "Tick"
    /\ Len(words) > 1
    /\ prev.current_index = Len(words) - 1
    /\ current_index = Len(words) - 1

\* C2: a tick is scheduled if and only if the engine is running, and every
\* tick that fired started from a running engine (no stale tick advances
\* the cursor after running was cleared).
C2_TickIffRunning ==
    /\ timerActive <=> is_playing
    /\ lastOp = "Tick" => prev.is_playing

\* a playing engine was paused, stopped or reloaded and no tick is left
C2_Witness ==
    /\ lastOp \in {"Pause", "Stop", "Load"}
    /\ prev.is_playing
    /\ ~is_playing
    /\ ~timerActive

\* C3: a tick emits finished exactly when the cursor would pass the last
\* word, and then exactly once; no other operation emits it; between two
\* user operations finished fires at most once and no word-changed follows
\* it.
C3_FinishedOnce ==
    /\ finishedSinceOp <= 1
    /\ ~wordAfterFinished
    /\ lastOp = "Tick" =>
          Count(emitted, "finished") =
              (IF prev.current_index + 1 >= prev.nwords THEN 1 ELSE 0)
    /\ lastOp # "Tick" => Count(emitted, "finished") = 0

\* playback ran past the last word and finished was emitted
C3_Witness ==
    /\ lastOp = "Tick"
    /\ finishedSinceOp = 1
    /\ Count(emitted, "finished") = 1

\* C4: a tick fired at the last index leaves running false, the timer
\* stopped and the cursor at the last index, emits finished and emits
\* neither word-changed nor progress-changed.
C4_EndTick ==
    (lastOp = "Tick" /\ prev.current_index = prev.nwords - 1) =>
        /\ ~is_playing
        /\ ~timerActive
        /\ current_index = Len(words) - 1
        /\ Count(emitted, "finished") = 1
        /\ Count(emitted, "word_changed") = 0
        /\ Count(emitted, "progress_changed") = 0

\* a tick fired while the cursor was at the last index
C4_Witness ==
    /\ lastOp = "Tick"
    /\ prev.is_playing
    /\ prev.current_index = prev.nwords - 1
    /\ ~is_playing

\* C5: whenever the engine is running, the timer interval is the one of the
\* word under the cursor at the current rate, int((60000 / rate) *
\* pauseFactor).
C5_IntervalOfCurrentWord ==
    is_playing => timerInterval = IntervalMs(wpm, CurrentPause)

\* C6: the rate is always within 50..2000; it starts at 300 and SetRate(w)
\* sets it to min(2000, max(50, w)).
C6_RateClamped ==
    /\ 50 <= wpm /\ wpm <= 2000
    /\ lastOp = "init" => wpm = 300
    /\ lastOp = "SetRate" => wpm = Min(2000, Max(50, lastArg))

\* a rate above the range was requested and clamped
C6_Witness ==
    /\ lastOp = "SetRate"
    /\ lastArg > 2000
    /\ wpm = 2000

\* C7: SetRate on a running engine leaves it running with the one timer
\* rescheduled at the interval of the current word at the new rate; SetRate
\* on an engine that is not running leaves it not running, timer stopped.
C7_SetRateReschedules ==
    lastOp = "SetRate" =>
        IF prev.is_playing
        THEN /\ is_playing
             /\ timerActive
             /\ timerInterval = IntervalMs(wpm, CurrentPause)
        ELSE ~is_playing /\ ~timerActive

\* the rate of a running engine was changed
C7_Witness ==
    /\ lastOp = "SetRate"
    /\ prev.is_playing
    /\ wpm # prev.wpm
    /\ timerActive

\* C8: Load(text) from any state leaves words = tokenize(text), cursor 0,
\* running false and the timer stopped; its last word-changed carries the
\* new first word (none for a text without words); it notifies progress,
\* and only progress 0.
C8_Load ==
    lastOp = "Load" =>
        /\ words = process_text(lastText)
        /\ current_index = 0
        /\ ~is_playing
        /\ ~timerActive
        /\ LastOf(emitted, "word_changed") # <<>>
        /\ LastOf(emitted, "word_changed")[1].word =
               (IF words = <<>> THEN <<>> ELSE <<words[1]>>)
        /\ Count(emitted, "progress_changed") > 0
        /\ \A i \in 1..Len(emitted) :
               emitted[i].sig = "progress_changed" => emitted[i].num = 0

\* a text with words was loaded over a playing engine that was past the
\* first word
C8_Witness ==
    /\ lastOp = "Load"
    /\ prev.is_playing
    /\ prev.current_index > 0
    /\ words # <<>>

\* C9: Play on non-empty words resets the cursor to 0 when it is at or past
\* the last index and keeps it otherwise; it sets running, starts the timer
\* at the interval of the resulting current word and notifies
\* state-changed.
C9_Play ==
    (lastOp = "Play" /\ words # <<>>) =>
        /\ current_index =
               (IF prev.current_index >= Len(words) - 1 THEN 0
                ELSE prev.current_index)
        /\ is_playing
        /\ timerActive
        /\ timerInterval = IntervalMs(wpm, CurrentPause)
        /\ Count(emitted, "state_changed") = 1

\* Play restarted from the last word of a text of several words
C9_Witness ==
    /\ lastOp = "Play"
    /\ Len(words) > 1
    /\ prev.current_index = Len(words) - 1
    /\ current_index = 0
    /\ is_playing

\* C10: Play, and TogglePlayPause on an engine that is not running, do
\* nothing when words is empty: running stays false, the timer is not
\* started, the cursor stays 0, the rate is kept and nothing is emitted.
C10_PlayEmpty ==
    (lastOp \in {"Play", "TogglePlayPause"} /\ words = <<>>
        /\ ~prev.is_playing) =>
        /\ ~is_playing
        /\ ~timerActive
        /\ current_index = 0
        /\ wpm = prev.wpm
        /\ emitted = <<>>

\* Play was invoked on an engine without words
C10_Witness ==
    /\ lastOp = "Play"
    /\ words = <<>>
    /\ prev.nwords = 0
    /\ ~is_playing

\* the engine proper: RSVPState and the timer
engineState ==
    <<words, current_index, wpm, is_playing, timerActive, timerInterval>>

\* C11: Pause leaves running false and the timer stopped and keeps cursor,
\* words and rate; a Pause that follows a Pause changes nothing of the
\* engine (idempotence), whatever the state the first one started from.
C11_Pause ==
    [][lastOp' = "Pause" =>
          /\ ~is_playing'
          /\ ~timerActive'
          /\ words' = words
          /\ current_index' = current_index
          /\ wpm' = wpm
          /\ lastOp = "Pause" => engineState' = engineState]_vars

\* a playing engine past the first word was paused, cursor kept
C11_Witness ==
    /\ lastOp = "Pause"
    /\ prev.is_playing
    /\ prev.current_index > 0
    /\ current_index = prev.current_index
    /\ ~is_playing

\* the emissions of a signal in a log, in order
Of(log, sig) == SelectSeq(log, LAMBDA e : e.sig = sig)

\* C12: Stop leaves running false, the timer stopped and the cursor at 0,
\* keeps words and rate, and notifies state-changed, progress-changed(0)
\* and, when words is non-empty, word-changed with the first word.
C12_Stop ==
    [][lastOp' = "Stop" =>
          /\ ~is_playing'
          /\ ~timerActive'
          /\ current_index' = 0
          /\ words' = words
          /\ wpm' = wpm
          /\ Len(Of(emitted', "state_changed")) = 1
          /\ Len(Of(emitted', "progress_changed")) = 1
          /\ Of(emitted', "progress_changed")[1].num = 0
          /\ words # <<>> =>
                /\ Len(Of(emitted', "word_changed")) = 1
                /\ Of(emitted', "word_changed")[1].word = <<words[1]>>]_vars

\* a playing engine past the first word was stopped
C12_Witness ==
    /\ lastOp = "Stop"
    /\ prev.is_playing
    /\ prev.current_index > 0
    /\ current_index = 0
    /\ ~timerActive

\* the log is word-changed with the word under the cursor followed by
\* progress-changed with cursor / len(words) * 100
AnnouncesCursor(log) ==
    /\ Len(log) = 2
    /\ log[1].sig = "word_changed"
    /\ log[1].word = <<words[current_index + 1]>>
    /\ log[2].sig = "progress_changed"
    /\ log[2].num * Len(words) = current_index * 100 * log[2].den

\* C13: Seek(index) on non-empty words sets the cursor to
\* min(max(index, 0), len(words) - 1), then notifies word-changed with the
\* word at the new cursor and progress-changed with the new progress.
C13_Seek ==
    (lastOp = "Seek" /\ words # <<>>) =>
        /\ current_index = Min(Max(lastArg, 0), Len(words) - 1)
        /\ AnnouncesCursor(emitted)

\* a seek beyond the end landed on the last word
C13_Witness ==
    /\ lastOp = "Seek"
    /\ Len(words) > 1
    /\ lastArg > Len(words) - 1
    /\ current_index = Len(words) - 1

NavigationOps ==
    {"Seek", "SeekPercent", "SkipForward", "SkipBackward",
     "PreviousSentence", "NextSentence"}

\* C14: the seek and navigation operations never alter running nor the
\* pending tick (a playing engine keeps playing, a paused one stays
\* paused), and on empty words they change nothing of the engine and emit
\* nothing.
C14_NavigationFrame ==
    [][lastOp' \in NavigationOps =>
          /\ is_playing' = is_playing
          /\ timerActive' = timerActive
          /\ words = <<>> =>
                /\ engineState' = engineState
                /\ emitted' = <<>>]_vars

\* a sentence navigation moved the cursor of a playing engine, which still
\* plays with its tick pending
C14_Witness ==
    /\ lastOp \in {"PreviousSentence", "NextSentence"}
    /\ prev.is_playing
    /\ current_index # prev.current_index
    /\ is_playing
    /\ timerActive

C16_Skip ==
    /\ (lastOp = "SkipForward" /\ words # <<>>) =>
           current_index = Min(prev.current_index + lastArg, Len(words) - 1)
    /\ (lastOp = "SkipBackward" /\ words # <<>>) =>
           current_index = Max(prev.current_index - lastArg, 0)

\* a default skip backward from the last of several words reached the first
C16_Witness ==
    /\ lastOp = "SkipBackward"
    /\ lastArg = 10
    /\ Len(words) > 2
    /\ prev.current_index = Len(words) - 1
    /\ current_index = 0

\* the word at (0-based) index i ends in '.', '!' or '?'
Terminator(i) ==
    LET t == words[i + 1].text
    IN  t # <<>> /\ t[Len(t)] \in {".", "!", "?"}

SetMin(S) == CHOOSE x \in S : \A y \in S : x <= y
SetMax(S) == CHOOSE x \in S : \A y \in S : y <= x

\* C17: NextSentence on non-empty words sets the cursor to idx + 1 for the
\* smallest idx with cursor <= idx < len(words) - 1 whose word ends a
\* sentence, and to len(words) - 1 if there is none.
C17_NextSentence ==
    (lastOp = "NextSentence" /\ words # <<>>) =>
        LET ends == {i \in prev.current_index..(Len(words) - 2) :
                        Terminator(i)}
        IN  current_index =
                (IF ends = {} THEN Len(words) - 1 ELSE SetMin(ends) + 1)

\* the scan passed a word that ends no sentence and stopped behind the next
\* terminator, before the last word
C17_Witness ==
    /\ lastOp = "NextSentence"
    /\ current_index = prev.current_index + 2
    /\ current_index < Len(words) - 1
    /\ Terminator(current_index - 1)

\* C18: PreviousSentence on non-empty words sets the cursor to i + 1 for
\* the largest i with 0 < i <= max(0, cursor - 1) whose word ends a
\* sentence, and to 0 if there is none (index 0 never counts).
C18_PreviousSentence ==
    (lastOp = "PreviousSentence" /\ words # <<>>) =>
        LET ends == {i \in 1..Max(0, prev.current_index - 1) : Terminator(i)}
        IN  current_index = (IF ends = {} THEN 0 ELSE SetMax(ends) + 1)

\* the cursor went back to the start of its sentence, which is not the
\* first one
C18_Witness ==
    /\ lastOp = "PreviousSentence"
    /\ current_index > 0
    /\ current_index < prev.current_index
    /\ Terminator(current_index - 1)

\* the state after a tick that did not reach the end
TickedOn ==
    /\ lastOp = "Tick"
    /\ prev.current_index + 1 < prev.nwords

\* C19: a tick that does not reach the end increases the cursor by exactly
\* 1, notifies word-changed with the new current word, then
\* progress-changed, and leaves the timer scheduled at the interval of the
\* new word; two ticks in a row announce consecutive indices.
C19_TickAdvances ==
    [][TickedOn' =>
          /\ current_index' = current_index + 1
          /\ words' = words
          /\ AnnouncesCursor(emitted)'
          /\ is_playing' /\ timerActive'
          /\ timerInterval' = IntervalMs(wpm, CurrentPause')
          /\ TickedOn => emitted'[1].index = emitted[1].index + 1]_vars

\* a tick moved the cursor to the third word and announced it
C19_Witness ==
    /\ TickedOn
    /\ current_index = 2
    /\ Len(emitted) = 2
    /\ emitted[1].index = 2
    /\ timerInterval = IntervalMs(wpm, CurrentPause)

\* C20: no public operation of the engine raises, in any reachable state
\* and for any argument: empty text, empty words, negative and beyond-end
\* seek targets, and rates of any sign are handled by clamping or no-op.
C20_NoError == ~error

\* a negative seek on an engine without words returned normally
C20_Witness ==
    /\ lastOp = "Seek"
    /\ lastArg < 0
    /\ words = <<>>
    /\ current_index = 0
    /\ ~error

(***************************************************************************)
(* C21: every progress_changed notification carries                        *)
(* current_index / len(words) * 100 for the cursor the engine holds when   *)
(* it is emitted (0 when words is empty), and the value lies in 0..100.    *)
(***************************************************************************)
C21_ProgressPayload ==
    \A i \in 1..Len(emitted) :
        emitted[i].sig = "progress_changed" =>
            LET e == emitted[i]
            IN  /\ e.den > 0
                /\ IF e.nwords = 0
                   THEN e.num = 0
                   ELSE e.num * e.nwords = e.index * 100 * e.den
                /\ 0 <= e.num
                /\ e.num <= 100 * e.den

\* a tick announced a cursor that is neither the first word nor the end
C21_Witness ==
    /\ lastOp = "Tick"
    /\ \E i \in 1..Len(emitted) :
           /\ emitted[i].sig = "progress_changed"
           /\ emitted[i].num > 0
           /\ emitted[i].index = current_index
           /\ emitted[i].nwords = Len(words)

(***************************************************************************)
(* C22: words changes only in Load and wpm only in SetRate: Play, Pause,   *)
(* TogglePlayPause, Stop, the seek and navigation operations and the tick  *)
(* leave both unchanged, and Load leaves wpm unchanged.                    *)
(***************************************************************************)
C22_WordsAndRateFrame ==
    [][/\ lastOp' # "Load" => words' = words
       /\ lastOp' # "SetRate" => wpm' = wpm]_vars

\* a Load on an engine whose rate was changed and that held another text
C22_Witness ==
    /\ lastOp = "Load"
    /\ prev.nwords > 0
    /\ words # <<>>
    /\ Len(words) # prev.nwords
    /\ wpm = prev.wpm
    /\ wpm # 300

(***************************************************************************)
(* C23: TogglePlayPause is Pause when playing and Play otherwise; on       *)
(* non-empty words it flips is_playing, two toggles in a row restore the   *)
(* is_playing they started from, and a toggle while playing keeps the      *)
(* cursor.                                                                 *)
(***************************************************************************)
C23_Toggle ==
    [][lastOp' = "TogglePlayPause" =>
          /\ engineState' =
                 IF is_playing
                 THEN LET s == pause(Cur)
                      IN  <<s.words, s.current_index, s.wpm, s.is_playing,
                            s.timerActive, s.timerInterval>>
                 ELSE LET s == play(Cur)
                      IN  <<s.words, s.current_index, s.wpm, s.is_playing,
                            s.timerActive, s.timerInterval>>
          /\ words # <<>> => is_playing' = ~is_playing
          /\ is_playing => current_index' = current_index
          /\ (lastOp = "TogglePlayPause" /\ words # <<>>) =>
                 is_playing' = prev.is_playing]_vars

\* a toggle paused a playing engine away from the first word
C23_Witness ==
    /\ lastOp = "TogglePlayPause"
    /\ prev.is_playing
    /\ ~is_playing
    /\ ~timerActive
    /\ current_index > 0
    /\ prev.current_index = current_index
    /\ Count(emitted, "state_changed") = 1

(***************************************************************************)
(* C24: process_text returns the maximal runs of non-whitespace characters *)
(* of its argument, in order, one Word per run: nothing for the empty and  *)
(* the whitespace-only text, and no Word whose text is empty or holds a    *)
(* whitespace character.                                                   *)
(***************************************************************************)
\* the positions where a run of non-whitespace characters starts
RunStarts(t) ==
    {i \in 1..Len(t) :
        t[i] \notin Whitespace /\ (i = 1 \/ t[i - 1] \in Whitespace)}

\* the last position of the run that starts at i
RunEnd(t, i) ==
    SetMax({j \in i..Len(t) : \A k \in i..j : t[k] \notin Whitespace})

\* the start of the k-th run
KthStart(t, k) ==
    CHOOSE i \in RunStarts(t) :
        Cardinality({j \in RunStarts(t) : j < i}) = k - 1

C24_Tokenize ==
    call.fn = "process_text" =>
        LET t == call.text
            r == call.words
        IN  /\ Len(r) = Cardinality(RunStarts(t))
            /\ \A k \in 1..Len(r) :
                   /\ r[k].text =
                          SubSeq(t, KthStart(t, k), RunEnd(t, KthStart(t, k)))
                   /\ r[k].text # <<>>
                   /\ \A j \in 1..Len(r[k].text) :
                          r[k].text[j] \notin Whitespace
            /\ (\A i \in 1..Len(t) : t[i] \in Whitespace) => r = <<>>

\* two tokens separated by a run of two different whitespace characters
C24_Witness ==
    /\ call.fn = "process_text"
    /\ Len(call.words) = 2
    /\ Len(call.text) = 4
    /\ call.text[2] \in Whitespace
    /\ call.text[3] \in Whitespace
    /\ call.text[2] # call.text[3]

(***************************************************************************)
(* C25: for a token of length L >= 1 calculate_orp is 0 for L <= 3, 1 for  *)
(* 4..5, 2 for 6..9, 3 for 10..13 and 4 from 14 on; it never decreases as  *)
(* L grows, and 0 <= orp_index < L for every Word process_text returns.    *)
(***************************************************************************)
C25_Orp ==
    /\ (call.fn = "calculate_orp" /\ Len(call.text) >= 1) =>
           LET L == Len(call.text)
               f == call.value
           IN  /\ L <= 3 => f = 0
               /\ L \in 4..5 => f = 1
               /\ L \in 6..9 => f = 2
               /\ L \in 10..13 => f = 3
               /\ L >= 14 => f = 4
               /\ \A k \in 1..L : calculate_orp(SubSeq(call.text, 1, k)) <= f
               /\ 0 <= f
               /\ f < L
    /\ call.fn = "process_text" =>
           \A k \in 1..Len(call.words) :
               /\ 0 <= call.words[k].orp_index
               /\ call.words[k].orp_index < Len(call.words[k].text)

\* the shortest token whose recognition point is 4
C25_Witness ==
    /\ call.fn = "calculate_orp"
    /\ Len(call.text) = 14
    /\ call.value = 4

(***************************************************************************)
(* C26: calculate_pause_multiplier (in tenths) is 25 after '.', '!', '?';  *)
(* 15 after ',', ';', ':'; after a closing quote or parenthesis 25 when    *)
(* the character before it is '.', '!' or '?' and 12 otherwise; 10 in      *)
(* every other case, the empty token included.                             *)
(***************************************************************************)
C26_PauseMultiplier ==
    call.fn = "calculate_pause_multiplier" =>
        LET w == call.text
            n == Len(call.text)
            f == call.value
        IN  /\ f \in {10, 12, 15, 25}
            /\ f >= 10
            /\ n = 0 => f = 10
            /\ n > 0 =>
                   /\ w[n] \in {".", "!", "?"} => f = 25
                   /\ w[n] \in {",", ";", ":"} => f = 15
                   /\ w[n] \in {"\"", "'", ")"} =>
                          /\ (n > 1 /\ w[n - 1] \in {".", "!", "?"}) => f = 25
                          /\ ~(n > 1 /\ w[n - 1] \in {".", "!", "?"}) => f = 12
                   /\ w[n] \notin {".", "!", "?", ",", ";", ":", "\"", "'", ")"}
                          => f = 10

\* a closing quote after the end of a sentence
C26_Witness ==
    /\ call.fn = "calculate_pause_multiplier"
    /\ Len(call.text) = 3
    /\ call.text[3] = "\""
    /\ call.text[2] = "!"
    /\ call.value = 25

(***************************************************************************)
(* C27: words_remaining is len(words) - current_index while the cursor is  *)
(* below len(words) and 0 from there on, empty words included.             *)
(***************************************************************************)
C27_WordsRemaining ==
    call.fn = "words_remaining" =>
        LET n == Len(call.state.words)
            c == call.state.current_index
        IN  /\ c >= n => call.value = 0
            /\ c < n => call.value = n - c
            /\ n = 0 /\ c >= 0 => call.value = 0
            /\ call.value >= 0

\* a cursor beyond the end of a non-empty list of words
C27_Witness ==
    /\ call.fn = "words_remaining"
    /\ call.state.words # <<>>
    /\ call.state.current_index > Len(call.state.words)
    /\ call.value = 0

(***************************************************************************)
(* C28: whenever a signal (word_changed, state_changed, progress_changed,  *)
(* finished) is delivered, the engine the observer reads has               *)
(* 0 <= current_index < len(words) if words is non-empty; this includes    *)
(* the state_changed of the tick that reaches the end of the text.         *)
(***************************************************************************)
C28_CursorInRangeAtEmission ==
    \A i \in 1..Len(emitted) :
        emitted[i].nwords > 0 =>
            /\ 0 <= emitted[i].index
            /\ emitted[i].index < emitted[i].nwords

(***************************************************************************)
(* C29: once a text was loaded, after every operation and every tick the   *)
(* payload of the most recent word_changed is the word under the cursor    *)
(* (None when words is empty) and the payload of the most recent           *)
(* progress_changed is the current progress; this includes a play() that   *)
(* restarts from the end of the text.                                      *)
(***************************************************************************)
C29_LastNotificationsCurrent ==
    lastWordChanged # <<>> =>
        /\ lastWordChanged[1] = current_word(Cur)
        /\ lastProgressChanged # <<>>
        /\ lastProgressChanged[1] * progress(Cur)[2] =
               progress(Cur)[1] * lastProgressChanged[2]

(***************************************************************************)
(* C30: is_playing implies that words is non-empty; so the timer never     *)
(* fires over an empty list of words and the clamp of the end tick,        *)
(* current_index = len(words) - 1, never gives -1.                         *)
(***************************************************************************)
C30_PlayingHasWords ==
    /\ is_playing => words # <<>>
    /\ timerActive => words # <<>>
    /\ lastOp = "Tick" => prev.nwords > 0
    /\ current_index # 0 - 1

\* an empty text was loaded over a playing engine
C30_Witness ==
    /\ lastOp = "Load"
    /\ prev.is_playing
    /\ prev.nwords > 0
    /\ words = <<>>
    /\ ~is_playing
    /\ ~timerActive

(***************************************************************************)
(* C33: NextSentence never decreases the cursor, and increases it unless   *)
(* the cursor is already at the last index; PreviousSentence never         *)
(* increases the cursor.  (On empty words there is no last index and the   *)
(* cursor stays 0.)                                                        *)
(***************************************************************************)
C33_SentenceMonotonic ==
    /\ lastOp = "NextSentence" =>
           /\ current_index >= prev.current_index
           /\ (words # <<>> /\ prev.current_index # Len(words) - 1) =>
                  current_index > prev.current_index
    /\ lastOp = "PreviousSentence" => current_index <= prev.current_index

\* NextSentence moved forward within a text of which it did not reach the end
C33_Witness ==
    /\ lastOp = "NextSentence"
    /\ prev.current_index > 0
    /\ current_index > prev.current_index
    /\ current_index < Len(words) - 1

(***************************************************************************)
(* C34: after PreviousSentence on non-empty words the cursor is at a       *)
(* sentence start (0, or the word before it ends in '.', '!' or '?');      *)
(* after NextSentence it is at a sentence start or at the last index.      *)
(***************************************************************************)
SentenceStart(i) == i = 0 \/ Terminator(i - 1)

C34_SentenceStart ==
    /\ (lastOp = "PreviousSentence" /\ words # <<>>) =>
           SentenceStart(current_index)
    /\ (lastOp = "NextSentence" /\ words # <<>>) =>
           \/ SentenceStart(current_index)
           \/ current_index = Len(words) - 1

\* PreviousSentence from inside the second sentence went to its first word
C34_Witness ==
    /\ lastOp = "PreviousSentence"
    /\ current_index = 2
    /\ prev.current_index = 3
    /\ Terminator(1)
    /\ ~Terminator(2)

C32_ButtonMirrorsEngine ==
    [][/\ controls_is_playing' = is_playing'
       /\ lastOp' = "ClickPlayPause" =>
              engineState' =
                  LET s == IF is_playing THEN pause(Cur) ELSE play(Cur)
                  IN  <<s.words, s.current_index, s.wpm, s.is_playing,
                        s.timerActive, s.timerInterval>>]_vars

\* a click after the end tick had paused the engine: it plays again
C32_Witness ==
    /\ lastOp = "ClickPlayPause"
    /\ ~prev.is_playing
    /\ prev.nwords > 1
    /\ prev.current_index = prev.nwords - 1
    /\ is_playing
    /\ controls_is_playing
    /\ current_index = 0

(***************************************************************************)
(* C31: once play() ran on non-empty words and only the timer acts, the    *)
(* engine eventually stops playing with the cursor on the last word and    *)
(* finished emitted; until then the timer stays pending (no stall) and     *)
(* every tick moves the cursor forward (no loop).                          *)
(***************************************************************************)
PlaybackFinished ==
    /\ ~is_playing
    /\ ~timerActive
    /\ words # <<>>
    /\ current_index = Len(words) - 1
    /\ lastOp = "Tick"
    /\ Count(emitted, "finished") = 1

C31_PlaybackTerminates ==
    /\ [](is_playing => (timerActive /\ words # <<>>))
    /\ [][(is_playing /\ is_playing') =>
             current_index' > current_index]_vars
    /\ (is_playing ~> PlaybackFinished)

\* a text of several words was played from its first word to the end
C31_Witness ==
    /\ PlaybackFinished
    /\ Len(words) > 2
    /\ prev.current_index = Len(words) - 1
    /\ prev.is_playing

(***************************************************************************)
(* C36: starting from a list without duplicates, after every               *)
(* add_recent_file the list has no duplicate and at most max_recent_files  *)
(* entries, the path just added is first, and the other paths keep their   *)
(* order (so the list is ordered most recently added first).               *)
(***************************************************************************)
\* l without x
Without(l, x) == SelectSeq(l, LAMBDA p : p # x)

C36_RecentFiles ==
    /\ NoDuplicate(settings.recent_files)
    /\ call.fn = "add_recent_file" =>
           LET l == settings.recent_files
               others == Without(settings_before.recent_files, call.text)
           IN  /\ Len(l) <= settings.max_recent_files
               /\ l # <<>>
               /\ l[1] = call.text
               /\ Len(l) - 1 <= Len(others)
               /\ Tail(l) = SubSeq(others, 1, Len(l) - 1)
               /\ Len(l) =
                      Min(Len(others) + 1, settings.max_recent_files)

\* the last path of a list of three was added again and went to the front
C36_Witness ==
    /\ call.fn = "add_recent_file"
    /\ Len(settings_before.recent_files) = 3
    /\ settings_before.recent_files[3] = call.text
    /\ settings.recent_files =
           <<call.text, settings_before.recent_files[1],
             settings_before.recent_files[2]>>

(***************************************************************************)
(* C37: after any add_bookmark and remove_bookmark calls the bookmark list *)
(* of every file is strictly ascending; adding an index that is present or *)
(* removing one that is absent changes no list; adding an absent index and *)
(* then removing it gives back the list from before.                       *)
(***************************************************************************)
StrictlyAscending(l) == \A i \in 1..(Len(l) - 1) : l[i] < l[i + 1]

SameBookmarks(st1, st2) ==
    \A f \in BookmarkFiles : get_bookmarks(st1, f) = get_bookmarks(st2, f)

C37_Bookmarks ==
    [][/\ \A f \in BookmarkFiles :
              StrictlyAscending(get_bookmarks(settings', f))
       /\ (call'.fn = "add_bookmark"
             /\ InList(get_bookmarks(settings, call'.text), call'.value))
              => SameBookmarks(settings', settings)
       /\ (call'.fn = "remove_bookmark"
             /\ ~InList(get_bookmarks(settings, call'.text), call'.value))
              => SameBookmarks(settings', settings)
       /\ (call.fn = "add_bookmark"
             /\ ~InList(get_bookmarks(settings_before, call.text), call.value)
             /\ call'.fn = "remove_bookmark"
             /\ call'.text = call.text
             /\ call'.value = call.value)
              => SameBookmarks(settings', settings_before)]_vars

\* an index was added between two bookmarks of a file
C37_Witness ==
    /\ call.fn = "add_bookmark"
    /\ get_bookmarks(settings_before, call.text) = <<0, 2>>
    /\ call.value = 1
    /\ get_bookmarks(settings, call.text) = <<0, 1, 2>>

====
